---- MODULE Spec2Model ----
(***************************************************************************)
(* Model of assets/app.js: the language / theme preference controller.    *)
(* The script applies the stored language and theme once at load, then a  *)
(* delegated click listener re-applies them on user interaction.          *)
(***************************************************************************)
EXTENDS Integers, Sequences, FiniteSets, TLC

\* ------------------------------------------------------------------ bounds
\* Number of elements of the page below the document root.
NumNodes == 2

\* --------------------------------------------------------------- constants
LANG_KEY == "mk_lang"
THEME_KEY == "mk_theme"
supported == {"en", "ja", "ko", "zh"}

\* null / absent attribute / absent storage entry
Null == "<null>"

\* Strings the page and the storage may carry (a supported non-default code,
\* the default, an unsupported code).
MarkerCodes == {"en", "ko", "fr"}
StoredLangs == {Null, "", "ko", "fr"}
StoredThemes == {Null, "", "light", "dark", "Dark"}
\* Arguments tried on applyLang / applyTheme directly.
LangInputs == supported \cup {"fr", "", "EN", Null}
ThemeInputs == {"light", "dark", "", "Dark", "DARK", "auto", Null}

Nodes == 1..NumNodes
\* The document root element (html); it carries no marker.
Root == 0

VARIABLES
  pc,        \* position of the script: "start", "langApplied", "ready"
  dom,       \* the page: per element its parent and its marker attributes
  sysDark,   \* window.matchMedia && matchMedia("(prefers-color-scheme: dark)").matches
  storage,   \* localStorage: key -> string or Null
  root,      \* attributes lang / data-theme of document.documentElement
  display,   \* el.style.display of every element
  active,    \* classList.contains("active") of every element
  text,      \* textContent of every element (only the toggle's is written)
  pressed,   \* aria-pressed attribute of every element
  stored0,   \* history: storage content before the script ran
  last       \* history: target of the last click and the state before it

vars == <<pc, dom, sysDark, storage, root, display, active, text, pressed, stored0, last>>

\* ------------------------------------------------------------ the document
\* An element is plain, tagged with a language marker, or a language selector.
NodeKinds ==
  {[dataLang |-> Null, setLang |-> Null]}
  \cup {[dataLang |-> c, setLang |-> Null] : c \in MarkerCodes}
  \cup {[dataLang |-> Null, setLang |-> c] : c \in MarkerCodes}

\* Elements are numbered in document order; an element is a child of the
\* root or of the element right before it.  At most one element carries
\* the theme-toggle marker.
Documents ==
  { [i \in Nodes |-> [parent |-> p[i], dataLang |-> k[i].dataLang,
                      setLang |-> k[i].setLang, toggle |-> (t = i)]] :
      p \in {q \in [Nodes -> 0..NumNodes] : \A i \in Nodes : q[i] \in {0, i - 1}},
      k \in [Nodes -> NodeKinds],
      t \in 0..NumNodes }

\* e.target.closest("[data-set-lang]"): nearest self-or-ancestor, 0 if none
RECURSIVE closestSetLang(_, _)
closestSetLang(d, n) ==
  IF n = Root THEN 0
  ELSE IF d[n].setLang # Null THEN n
  ELSE closestSetLang(d, d[n].parent)

\* e.target.closest("[data-toggle-theme]")
RECURSIVE closestToggle(_, _)
closestToggle(d, n) ==
  IF n = Root THEN 0
  ELSE IF d[n].toggle THEN n
  ELSE closestToggle(d, d[n].parent)

\* document.querySelector("[data-toggle-theme]"): first in document order
querySelectorToggle(d) ==
  IF \E i \in Nodes : d[i].toggle
  THEN CHOOSE i \in Nodes : d[i].toggle /\ \A j \in Nodes : d[j].toggle => i <= j
  ELSE 0

\* ------------------------------------------------------- the two appliers
Cur == [storage |-> storage, root |-> root, display |-> display,
        active |-> active, text |-> text, pressed |-> pressed]

\* Variant of resolveLang: the allow-list test is left out.
resolveLang_NoCheck(l) == l

\* if(!supported.includes(l)) l="en";
resolveLang(l) == IF l \in supported THEN l ELSE "en"

\* Variant of applyLang: the argument is persisted before it is resolved.
applyLang_PersistRaw(d, st, l0) ==
  LET l == resolveLang(l0) IN
  [st EXCEPT
     !.storage = [st.storage EXCEPT ![LANG_KEY] = l0],
     !.root = [st.root EXCEPT !.lang = l],
     !.display = [i \in Nodes |->
                    IF d[i].dataLang # Null
                    THEN (IF d[i].dataLang = l THEN "" ELSE "none")
                    ELSE st.display[i]],
     !.active = [i \in Nodes |->
                    IF d[i].setLang # Null
                    THEN d[i].setLang = l
                    ELSE st.active[i]]]

\* Variant of applyLang: markers are compared with the unresolved argument.
applyLang_CompareRaw(d, st, l0) ==
  LET l == resolveLang(l0) IN
  [st EXCEPT
     !.storage = [st.storage EXCEPT ![LANG_KEY] = l],
     !.root = [st.root EXCEPT !.lang = l],
     !.display = [i \in Nodes |->
                    IF d[i].dataLang # Null
                    THEN (IF d[i].dataLang = l0 THEN "" ELSE "none")
                    ELSE st.display[i]],
     !.active = [i \in Nodes |->
                    IF d[i].setLang # Null
                    THEN d[i].setLang = l0
                    ELSE st.active[i]]]

\* Variant of applyLang: classList.toggle("active") without the force
\* argument on the matching selector.
applyLang_ToggleNoForce(d, st, l0) ==
  LET l == resolveLang(l0) IN
  [st EXCEPT
     !.storage = [st.storage EXCEPT ![LANG_KEY] = l],
     !.root = [st.root EXCEPT !.lang = l],
     !.display = [i \in Nodes |->
                    IF d[i].dataLang # Null
                    THEN (IF d[i].dataLang = l THEN "" ELSE "none")
                    ELSE st.display[i]],
     !.active = [i \in Nodes |->
                    IF d[i].setLang # Null
                    THEN (IF d[i].setLang = l THEN ~st.active[i] ELSE FALSE)
                    ELSE st.active[i]]]

applyLang(d, st, l0) ==
  LET l == resolveLang(l0) IN
  [st EXCEPT
     !.storage = [st.storage EXCEPT ![LANG_KEY] = l],
     !.root = [st.root EXCEPT !.lang = l],
     !.display = [i \in Nodes |->
                    IF d[i].dataLang # Null
                    THEN (IF d[i].dataLang = l THEN "" ELSE "none")
                    ELSE st.display[i]],
     !.active = [i \in Nodes |->
                    IF d[i].setLang # Null
                    THEN d[i].setLang = l
                    ELSE st.active[i]]]

\* Variant of resolveTheme: the comparison ignores case.
resolveTheme_IgnoreCase(t) ==
  IF t \in {"dark", "Dark", "DARK"} THEN "dark" ELSE "light"

\* if(t!=="light" && t!=="dark") t="light";
resolveTheme(t) == IF t # "light" /\ t # "dark" THEN "light" ELSE t

\* Variant of applyTheme: the toggle's pressed-state is not updated.
applyTheme_NoPressed(d, st, t0) ==
  LET t == resolveTheme(t0)
      btn == querySelectorToggle(d)
      s1 == [st EXCEPT
               !.storage = [st.storage EXCEPT ![THEME_KEY] = t],
               !.root = [st.root EXCEPT !.theme = t]]
  IN IF btn # 0
     THEN [s1 EXCEPT
             !.text = [st.text EXCEPT ![btn] = IF t = "dark" THEN "Dark" ELSE "Light"]]
     ELSE s1

applyTheme(d, st, t0) ==
  LET t == resolveTheme(t0)
      btn == querySelectorToggle(d)
      s1 == [st EXCEPT
               !.storage = [st.storage EXCEPT ![THEME_KEY] = t],
               !.root = [st.root EXCEPT !.theme = t]]
  IN IF btn # 0
     THEN [s1 EXCEPT
             !.text = [st.text EXCEPT ![btn] = IF t = "dark" THEN "Dark" ELSE "Light"],
             !.pressed = [st.pressed EXCEPT ![btn] = IF t = "dark" THEN "true" ELSE "false"]]
     ELSE s1

Set(st) ==
  /\ storage' = st.storage
  /\ root' = st.root
  /\ display' = st.display
  /\ active' = st.active
  /\ text' = st.text
  /\ pressed' = st.pressed

\* ------------------------------------------------------------------- Init
\* The page as loaded, before the script runs.
Init ==
  /\ pc = "start"
  /\ dom \in Documents
  /\ sysDark \in BOOLEAN
  /\ \E l \in StoredLangs, t \in StoredThemes :
       storage = (LANG_KEY :> l) @@ (THEME_KEY :> t)
  /\ stored0 = storage
  /\ root = [lang |-> Null, theme |-> Null]
  /\ display = [i \in Nodes |-> ""]
  /\ active = [i \in Nodes |-> FALSE]
  /\ text = [i \in Nodes |-> ""]
  /\ pressed = [i \in Nodes |-> Null]
  /\ last = [target |-> -1, themeBefore |-> Null]

\* ---------------------------------------------------------------- actions
\* const initialLang = localStorage.getItem(LANG_KEY) || "en"; applyLang(initialLang);
StartupLang ==
  /\ pc = "start"
  /\ LET got == storage[LANG_KEY]
         initialLang == IF got = Null \/ got = "" THEN "en" ELSE got
     IN Set(applyLang(dom, Cur, initialLang))
  /\ pc' = "langApplied"
  /\ UNCHANGED <<dom, sysDark, stored0, last>>

\* const savedTheme = ...; if(savedTheme){...}else{... applyTheme(sysDark ? "dark" : "light")}
StartupTheme ==
  /\ pc = "langApplied"
  /\ LET savedTheme == storage[THEME_KEY]
     IN IF savedTheme # Null /\ savedTheme # ""
        THEN Set(applyTheme(dom, Cur, savedTheme))
        ELSE Set(applyTheme(dom, Cur, IF sysDark THEN "dark" ELSE "light"))
  /\ pc' = "ready"
  /\ UNCHANGED <<dom, sysDark, stored0, last>>

\* Variant of clickResult: the toggle applies the current theme, not its inverse.
clickResult_NoInverse(d, st, n) ==
  LET lb == closestSetLang(d, n)
      tb == closestToggle(d, n)
  IN IF lb # 0 THEN applyLang(d, st, d[lb].setLang)
     ELSE IF tb # 0
     THEN LET got == st.root.theme
              cur == IF got = Null \/ got = "" THEN "light" ELSE got
          IN applyTheme(d, st, IF cur = "dark" THEN "dark" ELSE "light")
     ELSE st

\* Variant of clickResult: the if(tb) test is left out.
clickResult_NoToggleGuard(d, st, n) ==
  LET lb == closestSetLang(d, n)
  IN IF lb # 0 THEN applyLang(d, st, d[lb].setLang)
     ELSE LET got == st.root.theme
              cur == IF got = Null \/ got = "" THEN "light" ELSE got
          IN applyTheme(d, st, IF cur = "dark" THEN "light" ELSE "dark")

\* Variant of clickResult: the toggle is looked up before the selector.
clickResult_ToggleFirst(d, st, n) ==
  LET lb == closestSetLang(d, n)
      tb == closestToggle(d, n)
  IN IF tb # 0
     THEN LET got == st.root.theme
              cur == IF got = Null \/ got = "" THEN "light" ELSE got
          IN applyTheme(d, st, IF cur = "dark" THEN "light" ELSE "dark")
     ELSE IF lb # 0 THEN applyLang(d, st, d[lb].setLang)
     ELSE st

\* The state the click listener leaves when the click's target is n.
clickResult(d, st, n) ==
  LET lb == closestSetLang(d, n)
      tb == closestToggle(d, n)
  IN IF lb # 0 THEN applyLang(d, st, d[lb].setLang)
     ELSE IF tb # 0
     THEN LET got == st.root.theme
              cur == IF got = Null \/ got = "" THEN "light" ELSE got
          IN applyTheme(d, st, IF cur = "dark" THEN "light" ELSE "dark")
     ELSE st

\* document.addEventListener("click", ...) with e.target = n
Click(n) ==
  /\ pc = "ready"
  /\ Set(clickResult(dom, Cur, n))
  /\ last' = [target |-> n, themeBefore |-> root.theme]
  /\ UNCHANGED <<pc, dom, sysDark, stored0>>

Next ==
  \/ StartupLang
  \/ StartupTheme
  \/ \E n \in Nodes \cup {Root} : Click(n)

Spec == Init /\ [][Next]_vars

\* ================================================================ claims
\* The language the contract prescribes for an argument s.
ExpectedLang(s) == IF s = "en" \/ s = "ja" \/ s = "ko" \/ s = "zh" THEN s ELSE "en"
ExpectedTheme(s) == IF s = "dark" THEN "dark" ELSE "light"
ExpectedLabel(t) == IF t = "dark" THEN "Dark" ELSE "Light"
ExpectedPressed(t) == IF t = "dark" THEN "true" ELSE "false"

\* How the listener dispatched the last click.
Clicked == last.target # -1
LastSelector == IF Clicked THEN closestSetLang(dom, last.target) ELSE 0
LastToggle == IF Clicked THEN closestToggle(dom, last.target) ELSE 0
LastWasLang == LastSelector # 0
LastWasTheme == LastSelector = 0 /\ LastToggle # 0

\* C1: for every argument s, applyLang(s) persists and sets as root lang
\* the value s when s is en, ja, ko or zh, and en otherwise; the value is a
\* supported code.  Checked on every reachable state for every argument, and
\* on the state each language-selector click leaves.
C1_ApplyLangResolves ==
  /\ \A s \in LangInputs :
       LET r == applyLang(dom, Cur, s) IN
         /\ r.storage[LANG_KEY] = ExpectedLang(s)
         /\ r.root.lang = ExpectedLang(s)
         /\ r.root.lang \in {"en", "ja", "ko", "zh"}
  /\ LastWasLang =>
       /\ storage[LANG_KEY] = ExpectedLang(dom[LastSelector].setLang)
       /\ root.lang = ExpectedLang(dom[LastSelector].setLang)

\* A selector with the unsupported target fr was clicked and en was applied.
C1_Witness ==
  /\ pc = "ready"
  /\ LastWasLang
  /\ dom[LastSelector].setLang = "fr"
  /\ root.lang = "en"
  /\ storage[LANG_KEY] = "en"

\* C2: for every argument s, applyTheme(s) persists and sets as root
\* data-theme the value dark iff s is exactly "dark", and light otherwise.
C2_ApplyThemeResolves ==
  /\ \A s \in ThemeInputs :
       LET r == applyTheme(dom, Cur, s) IN
         /\ (r.storage[THEME_KEY] = "dark") <=> (s = "dark")
         /\ (r.root.theme = "dark") <=> (s = "dark")
         /\ s # "dark" => r.storage[THEME_KEY] = "light" /\ r.root.theme = "light"
  /\ (pc = "ready" /\ ~Clicked /\ stored0[THEME_KEY] \notin {Null, ""}) =>
       /\ storage[THEME_KEY] = ExpectedTheme(stored0[THEME_KEY])
       /\ root.theme = ExpectedTheme(stored0[THEME_KEY])

\* Startup applied the stored theme "Dark" (wrong case) as light.
C2_Witness ==
  /\ pc = "ready"
  /\ ~Clicked
  /\ stored0[THEME_KEY] = "Dark"
  /\ root.theme = "light"
  /\ storage[THEME_KEY] = "light"

\* C3: after startup and after any clicks, every language-tagged element is
\* shown (style.display not "none") iff its marker is the applied language,
\* and every selector is active iff its target is the applied language.
C3_VisibleMatchesLang ==
  pc = "ready" =>
    \A i \in Nodes :
      /\ dom[i].dataLang # Null =>
           ((display[i] # "none") <=> (dom[i].dataLang = root.lang))
      /\ dom[i].setLang # Null =>
           (active[i] <=> (dom[i].setLang = root.lang))

\* The ko selector was clicked; a ko-tagged element is shown and the
\* selector is active.
C3_Witness ==
  /\ pc = "ready"
  /\ LastWasLang
  /\ dom[LastSelector].setLang = "ko"
  /\ active[LastSelector]
  /\ \E i \in Nodes : dom[i].dataLang = "ko" /\ display[i] = ""

\* A selector with an unsupported target was clicked while an en-tagged
\* element exists: it is shown and the fr selector is not active.
C3_WitnessUnsupported ==
  /\ pc = "ready"
  /\ LastWasLang
  /\ dom[LastSelector].setLang = "fr"
  /\ ~active[LastSelector]
  /\ \E i \in Nodes : dom[i].dataLang = "en" /\ display[i] = ""

\* C4: startup applies the stored theme (normalised) whenever one is stored,
\* whatever the ambient preference; with nothing stored it applies dark iff
\* the ambient preference is dark, and the toggle shows it.
C4_StartupTheme ==
  (pc = "ready" /\ ~Clicked) =>
    LET t0 == stored0[THEME_KEY]
        want == IF t0 # Null THEN ExpectedTheme(t0)
                ELSE IF sysDark THEN "dark" ELSE "light"
        btn == querySelectorToggle(dom)
    IN /\ root.theme = want
       /\ storage[THEME_KEY] = want
       /\ btn # 0 => text[btn] = ExpectedLabel(want) /\ pressed[btn] = ExpectedPressed(want)

\* C5: after startup the applied language is the stored code if it is
\* supported and en otherwise, and the storage key holds that value.
C5_StartupLang ==
  (pc # "start" /\ ~Clicked) =>
    /\ root.lang = ExpectedLang(stored0[LANG_KEY])
    /\ storage[LANG_KEY] = ExpectedLang(stored0[LANG_KEY])

\* Startup found the unsupported code fr stored and applied en.
C5_Witness ==
  /\ pc = "ready"
  /\ ~Clicked
  /\ stored0[LANG_KEY] = "fr"
  /\ root.lang = "en"
  /\ storage[LANG_KEY] = "en"

C7_UnmarkedClickNoEffect ==
  [][\A n \in Nodes \cup {Root} :
       (Click(n) /\ closestSetLang(dom, n) = 0 /\ closestToggle(dom, n) = 0) =>
         UNCHANGED <<storage, root, display, active, text, pressed>>]_vars

\* An unmarked element below the root was clicked.
C7_Witness ==
  /\ pc = "ready"
  /\ Clicked
  /\ last.target # Root
  /\ LastSelector = 0
  /\ LastToggle = 0

\* C8: applyLang(x) applied twice in a row leaves the state the first call
\* left, for every argument x and every reachable prior state.
C8_ApplyLangIdempotent ==
  \A x \in LangInputs :
    LET once == applyLang(dom, Cur, x)
        twice == applyLang(dom, once, x)
    IN /\ twice.storage = once.storage
       /\ twice.root = once.root
       /\ twice.display = once.display
       /\ twice.active = once.active

\* A selector was clicked on a page whose selector was already active:
\* the call ran on a state its own earlier call produced.
C8_Witness ==
  /\ pc = "ready"
  /\ LastWasLang
  /\ active[LastSelector]
  /\ Cur = applyLang(dom, Cur, dom[LastSelector].setLang)

\* C9: a click that has both a selector and a toggle among the target and
\* its ancestors applies only the language; persisted theme, root theme,
\* toggle label and pressed-state stay as they were.
C9_SelectorBeforeToggle ==
  [][\A n \in Nodes :
       (Click(n) /\ closestSetLang(dom, n) # 0 /\ closestToggle(dom, n) # 0) =>
         /\ storage'[THEME_KEY] = storage[THEME_KEY]
         /\ root'.theme = root.theme
         /\ text' = text
         /\ pressed' = pressed
         /\ root'.lang = ExpectedLang(dom[closestSetLang(dom, n)].setLang)]_vars

\* The toggle, nested inside a ko selector, was clicked while en was applied.
C9_Witness ==
  /\ pc = "ready"
  /\ LastWasLang
  /\ LastToggle # 0
  /\ LastSelector < LastToggle
  /\ root.lang = "ko"
  /\ root.theme = last.themeBefore

\* C10: after startup, whatever was stored and whatever the ambient
\* preference, the persisted theme equals the root theme attribute, is light
\* or dark, and the toggle (when present) reads "Dark"/pressed iff dark.
C10_ThemeConsistent ==
  pc = "ready" =>
    LET btn == querySelectorToggle(dom) IN
      /\ storage[THEME_KEY] = root.theme
      /\ root.theme \in {"light", "dark"}
      /\ btn # 0 =>
           /\ text[btn] = ExpectedLabel(root.theme)
           /\ pressed[btn] = ExpectedPressed(root.theme)
           /\ (text[btn] = "Dark") <=> (root.theme = "dark")
           /\ (pressed[btn] = "true") <=> (root.theme = "dark")

\* The toggle was clicked on a page that started with an invalid stored theme.
C10_Witness ==
  /\ pc = "ready"
  /\ LastWasTheme
  /\ stored0[THEME_KEY] = "Dark"
  /\ root.theme = "dark"
  /\ text[querySelectorToggle(dom)] = "Dark"

====
